---- MODULE Spec2Model ----
(***************************************************************************)
(* The resilience layer of autogen_ts_engine/error_recovery.py:            *)
(* CircuitBreaker (call, _on_success, _on_failure, _should_attempt_reset)  *)
(* and ErrorRecoveryManager (handle_error and the operations it calls,     *)
(* the two JSON logs, get_error_statistics).                               *)
(*                                                                         *)
(* The decision loops of autogen_ts_engine/rl_module.py (StateSpace,       *)
(* QLearningAgent, RewardCalculator, OuterLoopPolicy, RLModule) and the    *)
(* sprint loop of sprint_runner.py driven directly or through the threads  *)
(* of ide_interface.py.                                                    *)
(*                                                                         *)
(* The specifications share the variables; each one holds the variables    *)
(* of the other components at their initial values:                        *)
(*   SpecBreaker  one CircuitBreaker with any threshold and timeout,       *)
(*                driven by call() and by the clock;                       *)
(*   Spec         the manager: handle_error under every breaker state;     *)
(*   SpecLog      the manager over several handle_error invocations and    *)
(*                re-constructions over the same project directory;        *)
(*   SpecEncode   StateSpace.discretize_state over any inputs;             *)
(*   SpecReward   RewardCalculator.calculate_reward after set_baseline;    *)
(*   SpecInner    RLModule.update_inner_loop / calculate_reward sequences  *)
(*                on a fresh RLModule;                                     *)
(*   SpecOuter    OuterLoopPolicy.update_policy sequences;                 *)
(*   SpecEngine   SprintRunner.run_sprints started by the commands of      *)
(*                IDEInterface, one thread per run_sprint command.         *)
(***************************************************************************)
EXTENDS Integers, Sequences, FiniteSets, TLC

\* ------------------------------------------------------------ bounds
\* failure_threshold ranges over 1..MaxThreshold in SpecBreaker
MaxThreshold == 3
\* timeout ranges over 1..MaxTimeout (seconds) in SpecBreaker
MaxTimeout == 2
\* the clock of SpecBreaker stops at MaxTime
MaxTime == 4
\* wrapped-function failures are observed up to failure_threshold + MaxOverrun
MaxOverrun == 1

\* ------------------------------------------------------------ state
VARIABLES
  circuit_breakers,  \* component -> CircuitBreaker fields
  now,               \* datetime.now(), in seconds
  pending,           \* the component whose wrapped function is executing, or "none"
  outcome,           \* how the last call() ended for its caller: "none" (func still
                     \* running), "returned", "raised" (func's exception re-raised),
                     \* "raised_open" (the "Circuit breaker is OPEN" exception)
  entered,           \* the breaker state the last call() found on entry, or "none"
  consec,            \* component -> wrapped-function failures since its last success
  error_log,         \* scrum/error_log.json: the list of Error Context dicts
  recovery_log,      \* recovery_log.json: the list of Recovery Result dicts
  error_history,     \* ErrorRecoveryManager.error_history
  last_result,       \* the RecoveryResult the last handle_error returned
  pc,                \* "idle", or "retry" while _retry_operation's loop runs
  frame,             \* the locals of the handle_error invocation in progress
  encoded,           \* the last discretize_state call: its inputs and its results
  q_table,           \* QLearningAgent.q_table: state -> action index -> value
  baseline_metrics,  \* RewardCalculator.baseline_metrics, or None
  args,              \* the arguments of the last calculate_reward /
                     \* update_inner_loop call, None before any call
  reward,            \* what that call returned, Raised if it raised
  inner_calls,       \* the number of update_inner_loop calls made so far
  sprint_rewards,    \* OuterLoopPolicy.sprint_rewards
  policy_weights,    \* OuterLoopPolicy.policy_weights
  sprint_results,    \* SprintRunner.sprint_results
  current_sprint,    \* SprintRunner.current_sprint
  is_running,        \* IDEInterface.is_running
  stop_requested,    \* the threads that were inside run_sprints when a
                     \* stop_engine command was processed
  threads,           \* thread -> the position and locals of its run_sprints call
  settings,          \* Settings: num_sprints and debug_mode
  q_table_json,      \* rl_data/q_table.json on disk
  outer_policy_json, \* rl_data/outer_policy.json on disk
  rl_pc              \* "running", "save_q" and "save_policy" while save_state
                     \* has that file open, "failed" when RLModule.__init__
                     \* raised

breaker_vars == <<circuit_breakers, now, pending, outcome, entered, consec>>
manager_vars == <<error_log, recovery_log, error_history, last_result, pc, frame>>
rl_vars == <<encoded, q_table, baseline_metrics, args, reward, inner_calls,
             sprint_rewards, policy_weights>>
engine_vars == <<sprint_results, current_sprint, is_running, stop_requested,
                 threads, settings>>
disk_vars == <<q_table_json, outer_policy_json, rl_pc>>
vars == <<circuit_breakers, now, pending, outcome, entered, consec,
          error_log, recovery_log, error_history, last_result, pc, frame,
          encoded, q_table, baseline_metrics, args, reward, inner_calls,
          sprint_rewards, policy_weights,
          sprint_results, current_sprint, is_running, stop_requested, threads,
          settings, q_table_json, outer_policy_json, rl_pc>>

\* last_failure_time = None
NoTime == -1

\* ------------------------------------------------------------ CircuitBreaker
\* CircuitBreaker.__init__
CircuitBreaker(failure_threshold, timeout) ==
  [failure_threshold |-> failure_threshold,
   timeout |-> timeout,
   failure_count |-> 0,
   last_failure_time |-> NoTime,
   state |-> "CLOSED"]

\* _on_success that closes the breaker and keeps failure_count
_on_success_keeps_count(cb) == [cb EXCEPT !.state = "CLOSED"]

\* CircuitBreaker._on_success
_on_success(cb) ==
  [cb EXCEPT !.failure_count = 0, !.state = "CLOSED"]

\* _on_failure with the threshold test written > instead of >=
_on_failure_strict(cb, t) ==
  LET n == cb.failure_count + 1
  IN  [cb EXCEPT !.failure_count = n,
                 !.last_failure_time = t,
                 !.state = IF n > cb.failure_threshold THEN "OPEN" ELSE @]

\* CircuitBreaker._on_failure at time t
_on_failure(cb, t) ==
  LET n == cb.failure_count + 1
  IN  [cb EXCEPT !.failure_count = n,
                 !.last_failure_time = t,
                 !.state = IF n >= cb.failure_threshold THEN "OPEN" ELSE @]

\* _should_attempt_reset with the timeout test written > instead of >=
_should_attempt_reset_strict(cb, t) ==
  IF cb.last_failure_time = NoTime
  THEN TRUE
  ELSE t - cb.last_failure_time > cb.timeout

\* CircuitBreaker._should_attempt_reset at time t
_should_attempt_reset(cb, t) ==
  IF cb.last_failure_time = NoTime
  THEN TRUE
  ELSE t - cb.last_failure_time >= cb.timeout

\* call() entry that counts the short-circuited call as a failure time
call_entry_restarts_timer(cb, t) ==
  IF cb.state = "OPEN" /\ _should_attempt_reset(cb, t)
  THEN [cb EXCEPT !.state = "HALF_OPEN"]
  ELSE IF cb.state = "OPEN"
       THEN [cb EXCEPT !.last_failure_time = t]
       ELSE cb

\* call() entry that clears failure_count when it moves to HALF_OPEN
call_entry_resets_count(cb, t) ==
  IF cb.state = "OPEN" /\ _should_attempt_reset(cb, t)
  THEN [cb EXCEPT !.state = "HALF_OPEN", !.failure_count = 0]
  ELSE cb

\* The breaker as call() leaves it before the wrapped function runs (lines 77-81)
call_entry(cb, t) ==
  IF cb.state = "OPEN" /\ _should_attempt_reset(cb, t)
  THEN [cb EXCEPT !.state = "HALF_OPEN"]
  ELSE cb

\* Whether call() raises "Circuit breaker is OPEN" without invoking func
call_short_circuits(cb, t) ==
  cb.state = "OPEN" /\ ~_should_attempt_reset(cb, t)

\* CircuitBreaker.call up to the invocation of func: either the fast failure
\* is raised, or func starts to run
call(c) ==
  /\ pc = "idle"
  /\ pending = "none"
  /\ LET cb == circuit_breakers[c]
     IN  /\ entered' = cb.state
         /\ circuit_breakers' = [circuit_breakers EXCEPT ![c] = call_entry(cb, now)]
         /\ IF call_short_circuits(cb, now)
            THEN /\ outcome' = "raised_open"
                 /\ pending' = "none"
            ELSE /\ outcome' = "none"
                 /\ pending' = c
  /\ UNCHANGED <<now, consec>>
  /\ UNCHANGED manager_vars
  /\ UNCHANGED <<rl_vars, engine_vars, disk_vars>>

\* CircuitBreaker.call from the return of func: result returned after
\* _on_success, or the exception re-raised after _on_failure
call_return(c, ok) ==
  /\ pc = "idle"
  /\ pending = c
  /\ LET cb == circuit_breakers[c]
     IN  IF ok
         THEN /\ circuit_breakers' = [circuit_breakers EXCEPT ![c] = _on_success(cb)]
              /\ consec' = [consec EXCEPT ![c] = 0]
              /\ outcome' = "returned"
         ELSE /\ cb.failure_count < cb.failure_threshold + MaxOverrun
              /\ circuit_breakers' = [circuit_breakers EXCEPT ![c] = _on_failure(cb, now)]
              /\ consec' = [consec EXCEPT ![c] = @ + 1]
              /\ outcome' = "raised"
  /\ pending' = "none"
  /\ UNCHANGED <<now, entered>>
  /\ UNCHANGED manager_vars
  /\ UNCHANGED <<rl_vars, engine_vars, disk_vars>>

\* One second passes
Tick ==
  /\ now < MaxTime
  /\ now' = now + 1
  /\ UNCHANGED <<circuit_breakers, pending, outcome, entered, consec>>
  /\ UNCHANGED manager_vars
  /\ UNCHANGED <<rl_vars, engine_vars, disk_vars>>

\* ------------------------------------------------------------ ErrorRecoveryManager
\* retry_count and max_retries of a context range over 0..MaxRetries
MaxRetries == 2
\* SpecLog handles at most MaxErrors errors
MaxErrors == 2
\* the clock of Spec stops at MaxClock seconds
MaxClock == 60

\* new_error = None
NoError == "none"

\* ErrorRecoveryManager.__init__: the four breakers it constructs
ManagerBreakers ==
  [c \in {"llm", "git", "test", "build"} |->
     CASE c = "llm"   -> CircuitBreaker(3, 30)
       [] c = "git"   -> CircuitBreaker(2, 60)
       [] c = "test"  -> CircuitBreaker(5, 120)
       [] c = "build" -> CircuitBreaker(3, 180)]

\* The exception classes handled: one for each branch of _determine_severity
ErrorTypes == {"KeyboardInterrupt", "ConnectionError", "ValueError", "RuntimeError"}

\* ErrorRecoveryManager._determine_severity (ErrorSeverity values)
_determine_severity(error_type) ==
  IF error_type \in {"KeyboardInterrupt", "SystemExit"} THEN "critical"
  ELSE IF error_type \in {"ConnectionError", "TimeoutError", "FileNotFoundError"} THEN "high"
  ELSE IF error_type \in {"ValueError", "TypeError", "AttributeError"} THEN "medium"
  ELSE "low"

\* _create_error_context over a dataclass whose default action is ABORT
_create_error_context_default_abort(error_type, context) ==
  [error_type |-> error_type,
   severity |-> _determine_severity(error_type),
   component |-> context.component,
   retry_count |-> context.retry_count,
   max_retries |-> context.max_retries,
   recovery_action |-> "abort"]

\* ErrorRecoveryManager._create_error_context; recovery_action takes the
\* dataclass default RecoveryAction.RETRY
_create_error_context(error_type, context) ==
  [error_type |-> error_type,
   severity |-> _determine_severity(error_type),
   component |-> context.component,
   retry_count |-> context.retry_count,
   max_retries |-> context.max_retries,
   recovery_action |-> "retry"]

\* _determine_recovery_action that restarts on a critical error with budget left
_determine_recovery_action_restarts(error_context, breakers) ==
  IF error_context.retry_count >= error_context.max_retries
  THEN IF error_context.severity = "critical" THEN "abort"
       ELSE IF error_context.severity = "high" THEN "rollback"
       ELSE "skip"
  ELSE IF /\ error_context.component \in DOMAIN breakers
          /\ breakers[error_context.component].state = "OPEN"
       THEN "fallback"
       ELSE IF error_context.severity \in {"low", "medium"} THEN "retry"
            ELSE IF error_context.severity = "high" THEN "fallback"
            ELSE "restart"

\* _determine_recovery_action with the budget test written > instead of >=
_determine_recovery_action_off_by_one(error_context, breakers) ==
  IF error_context.retry_count > error_context.max_retries
  THEN IF error_context.severity = "critical" THEN "abort"
       ELSE IF error_context.severity = "high" THEN "rollback"
       ELSE "skip"
  ELSE IF /\ error_context.component \in DOMAIN breakers
          /\ breakers[error_context.component].state = "OPEN"
       THEN "fallback"
       ELSE IF error_context.severity \in {"low", "medium"} THEN "retry"
            ELSE IF error_context.severity = "high" THEN "fallback"
            ELSE "abort"

\* ErrorRecoveryManager._determine_recovery_action (RecoveryAction values)
_determine_recovery_action(error_context, breakers) ==
  IF error_context.retry_count >= error_context.max_retries
  THEN IF error_context.severity = "critical" THEN "abort"
       ELSE IF error_context.severity = "high" THEN "rollback"
       ELSE "skip"
  ELSE IF /\ error_context.component \in DOMAIN breakers
          /\ breakers[error_context.component].state = "OPEN"
       THEN "fallback"
       ELSE IF error_context.severity \in {"low", "medium"} THEN "retry"
            ELSE IF error_context.severity = "high" THEN "fallback"
            ELSE "abort"

\* The RecoveryResult dataclass
RecoveryResult(success, action_taken, error_context, new_error) ==
  [success |-> success,
   action_taken |-> action_taken,
   error_context |-> error_context,
   new_error |-> new_error]

\* _fallback_operation that reports success whatever fallback_func did
_fallback_operation_swallows(error_context, context, env) ==
  IF context.fallback_func
  THEN RecoveryResult(TRUE, "fallback", error_context, NoError)
  ELSE RecoveryResult(FALSE, "fallback", error_context, NoError)

\* ErrorRecoveryManager._fallback_operation; env.fallback is what the supplied
\* fallback_func does when invoked: "ok" or "raise"
_fallback_operation(error_context, context, env) ==
  IF context.fallback_func
  THEN IF env.fallback = "ok"
       THEN RecoveryResult(TRUE, "fallback", error_context, NoError)
       ELSE RecoveryResult(FALSE, "fallback", error_context, "fallback_error")
  ELSE RecoveryResult(FALSE, "fallback", error_context, NoError)

\* ErrorRecoveryManager._rollback_operation; env.rollback is what the git
\* reset (component git) or the copy of the backup (component file) does:
\* "ok", "fail" (non-zero return code, no backup) or "raise"
_rollback_operation(error_context, context, env) ==
  IF error_context.component \in {"git", "file"} /\ env.rollback = "raise"
  THEN RecoveryResult(FALSE, "rollback", error_context, "rollback_error")
  ELSE IF error_context.component \in {"git", "file"} /\ env.rollback = "ok"
       THEN RecoveryResult(TRUE, "rollback", error_context, NoError)
       ELSE RecoveryResult(FALSE, "rollback", error_context, NoError)

\* ErrorRecoveryManager._restart_operation
_restart_operation(error_context, context) ==
  RecoveryResult(TRUE, "restart", error_context, NoError)

\* handle_error's dispatch on the recovery action, for the actions that end
\* within one step (lines 163-182)
execute_recovery(recovery_action, error_context, context, env) ==
  IF recovery_action = "fallback" THEN _fallback_operation(error_context, context, env)
  ELSE IF recovery_action = "rollback" THEN _rollback_operation(error_context, context, env)
  ELSE IF recovery_action = "restart" THEN _restart_operation(error_context, context)
  ELSE IF recovery_action = "skip"
       THEN RecoveryResult(TRUE, "skip", error_context, NoError)
       ELSE RecoveryResult(FALSE, "abort", error_context, NoError)

\* _log_error that does not read the file before it writes
_log_error_overwrites(errors, error_context) ==
  <<[error_type |-> error_context.error_type,
     severity |-> error_context.severity,
     component |-> error_context.component,
     retry_count |-> error_context.retry_count,
     max_retries |-> error_context.max_retries,
     recovery_action |-> error_context.recovery_action]>>

\* ErrorRecoveryManager._log_error: the file's list with error_dict appended
_log_error(errors, error_context) ==
  Append(errors,
         [error_type |-> error_context.error_type,
          severity |-> error_context.severity,
          component |-> error_context.component,
          retry_count |-> error_context.retry_count,
          max_retries |-> error_context.max_retries,
          recovery_action |-> error_context.recovery_action])

\* ErrorRecoveryManager._log_recovery: the file's list with recovery_data appended
_log_recovery(recoveries, recovery_result) ==
  Append(recoveries,
         [success |-> recovery_result.success,
          action_taken |-> recovery_result.action_taken,
          error_type |-> recovery_result.error_context.error_type,
          component |-> recovery_result.error_context.component,
          new_error |-> recovery_result.new_error])

\* The ErrorContext before any error was handled
NoContext ==
  [error_type |-> "none", severity |-> "none", component |-> "none",
   retry_count |-> 0, max_retries |-> 0, recovery_action |-> "none"]

\* No RecoveryResult returned yet
NoResult == RecoveryResult(FALSE, "none", NoContext, NoError)

\* The locals of handle_error and _retry_operation when none has run: the
\* context, the loop variable attempt, the number of invocations of
\* operation_func, whether one of them returned, and the exception that ended
\* the recovery action
NoFrame ==
  [error_context |-> NoContext, operation_func |-> FALSE,
   attempt |-> 0, op_calls |-> 0, op_ok |-> FALSE, exception |-> NoError]

\* The exception, if any, that the callable or command run by the recovery
\* action raised (the message of the exception object; NoError when it
\* returned or nothing was run)
raised_by(recovery_action, error_context, context, env) ==
  IF recovery_action = "fallback" /\ context.fallback_func /\ env.fallback = "raise"
  THEN "fallback_error"
  ELSE IF /\ recovery_action = "rollback"
          /\ error_context.component \in {"git", "file"}
          /\ env.rollback = "raise"
       THEN "rollback_error"
       ELSE NoError

\* What the fallback_func and the rollback commands may do when the recovery
\* action invokes them
Envs(recovery_action) ==
  [fallback : IF recovery_action = "fallback" THEN {"ok", "raise"} ELSE {"ok"},
   rollback : IF recovery_action = "rollback" THEN {"ok", "fail", "raise"} ELSE {"ok"}]

\* handle_error's last lines: _log_recovery(result); return result
finish(result) ==
  /\ recovery_log' = _log_recovery(recovery_log, result)
  /\ last_result' = result
  /\ pc' = "idle"

\* A range(1, max_retries + 1) that ignores the retries already made
first_attempt_from_one(error_context) == 1

\* The first value of attempt in _retry_operation's range (line 264)
first_attempt(error_context) == error_context.retry_count + 1

\* ErrorRecoveryManager.handle_error, to its return or, when the action is
\* RETRY, to the start of _retry_operation's loop
handle_error(error_type, context) ==
  /\ pc = "idle"
  /\ LET created == _create_error_context(error_type, context)
         recovery_action == _determine_recovery_action(created, circuit_breakers)
         error_context == [created EXCEPT !.recovery_action = recovery_action]
     IN  /\ error_log' = _log_error(error_log, created)
         /\ IF recovery_action = "retry"
            THEN /\ pc' = "retry"
                 /\ frame' = [error_context |-> error_context,
                              operation_func |-> context.operation_func,
                              attempt |-> first_attempt(error_context),
                              op_calls |-> 0,
                              op_ok |-> FALSE,
                              exception |-> NoError]
                 /\ UNCHANGED <<recovery_log, last_result>>
            ELSE \E env \in Envs(recovery_action) :
                   /\ finish(execute_recovery(recovery_action, error_context, context, env))
                   /\ frame' = [NoFrame EXCEPT
                                  !.error_context = error_context,
                                  !.exception = raised_by(recovery_action, error_context,
                                                          context, env)]
  /\ UNCHANGED breaker_vars
  /\ UNCHANGED <<rl_vars, engine_vars, disk_vars>>
  /\ UNCHANGED error_history

\* One iteration of the loop of ErrorRecoveryManager._retry_operation
\* (for attempt in range(retry_count + 1, max_retries + 1)), or its exit;
\* ok is what operation_func does when invoked in this iteration
retry_attempt(ok) ==
  /\ pc = "retry"
  /\ LET error_context == frame.error_context
         invoked == [frame EXCEPT !.op_calls = @ + 1, !.exception = NoError]
         failed == [invoked EXCEPT !.exception = "retry_error"]
     IN  IF frame.attempt > error_context.max_retries
         THEN /\ finish(RecoveryResult(FALSE, "retry", error_context, NoError))
              /\ UNCHANGED frame
         ELSE IF ~frame.operation_func
              THEN /\ frame' = [frame EXCEPT !.attempt = @ + 1]
                   /\ UNCHANGED <<recovery_log, last_result, pc>>
              ELSE IF ok
                   THEN /\ finish(RecoveryResult(TRUE, "retry", error_context, NoError))
                        /\ frame' = [invoked EXCEPT !.op_ok = TRUE]
                   ELSE IF frame.attempt = error_context.max_retries
                        THEN /\ finish(RecoveryResult(FALSE, "retry", error_context, "retry_error"))
                             /\ frame' = failed
                        ELSE /\ frame' = [failed EXCEPT !.attempt = @ + 1]
                             /\ UNCHANGED <<recovery_log, last_result, pc>>
  /\ UNCHANGED breaker_vars
  /\ UNCHANGED <<rl_vars, engine_vars, disk_vars>>
  /\ UNCHANGED <<error_log, error_history>>

\* ErrorRecoveryManager.get_error_statistics; recovery_rate is the fraction
\* successful_recoveries * 100 / total_errors as <<numerator, denominator>>
get_error_statistics ==
  IF error_history = <<>>
  THEN [total_errors |-> 0, recovery_rate |-> <<0, 1>>]
  ELSE LET total_errors == Len(error_history)
           successful_recoveries ==
             Cardinality({i \in 1..Len(recovery_log) : recovery_log[i].success})
       IN  [total_errors |-> total_errors,
            successful_recoveries |-> successful_recoveries,
            recovery_rate |-> <<successful_recoveries * 100, total_errors>>,
            circuit_breaker_states |->
              [c \in DOMAIN circuit_breakers |-> circuit_breakers[c].state]]

\* The caller waits until breaker c's timeout has elapsed
Wait(c) ==
  /\ circuit_breakers[c].state = "OPEN"
  /\ now < circuit_breakers[c].last_failure_time + circuit_breakers[c].timeout
  /\ circuit_breakers[c].last_failure_time + circuit_breakers[c].timeout <= MaxClock
  /\ now' = circuit_breakers[c].last_failure_time + circuit_breakers[c].timeout
  /\ UNCHANGED <<circuit_breakers, pending, outcome, entered, consec>>
  /\ UNCHANGED manager_vars
  /\ UNCHANGED <<rl_vars, engine_vars, disk_vars>>

\* ------------------------------------------------------------ rl_module.py
\* None
None == [none |-> TRUE]

\* The decision loops of the engine are bounded in the model
\* RLConfig.state_buckets (default 10)
state_buckets == 2
\* update_inner_loop is followed up to MaxUpdates calls in SpecInner
MaxUpdates == 2
\* update_policy is followed up to MaxPolicyUpdates calls in SpecOuter
MaxPolicyUpdates == 3

\* A float is the exact rational <<numerator, denominator>>, in lowest terms
\* with a positive denominator
Abs(n) == IF n < 0 THEN -n ELSE n

RECURSIVE GCD(_, _)
GCD(a, b) == IF b = 0 THEN a ELSE GCD(b, a % b)

LCM(a, b) == (a \div GCD(a, b)) * b

Rat(n, d) ==
  LET g == GCD(Abs(n), Abs(d))
      s == IF d < 0 THEN -1 ELSE 1
  IN  <<(s * n) \div g, (s * d) \div g>>

\* x + y
RAdd(x, y) ==
  LET l == LCM(x[2], y[2])
  IN  Rat(x[1] * (l \div x[2]) + y[1] * (l \div y[2]), l)

\* x - y
RSub(x, y) == RAdd(x, <<-y[1], y[2]>>)

\* x * y
RMul(x, y) ==
  LET g1 == GCD(Abs(x[1]), y[2])
      g2 == GCD(Abs(y[1]), x[2])
  IN  Rat((x[1] \div g1) * (y[1] \div g2), (x[2] \div g2) * (y[2] \div g1))

\* x < y
RLess(x, y) ==
  LET l == LCM(x[2], y[2])
  IN  x[1] * (l \div x[2]) < y[1] * (l \div y[2])

\* int(x): truncation towards zero
int(x) == IF x[1] >= 0 THEN x[1] \div x[2] ELSE -((-x[1]) \div x[2])

\* min(a, b)
Min(a, b) == IF a <= b THEN a ELSE b

\* ActionSpace.actions (= ActionSpace.ACTIONS)
actions ==
  <<"refactor_code", "add_tests", "improve_docs", "split_module",
    "reduce_dependencies", "optimize_performance", "fix_bugs", "add_features">>

\* ActionSpace.n_actions
n_actions == Len(actions)

\* list.index raises ValueError for a name that is not in the catalog
ValueError(action) == \A i \in 1..n_actions : actions[i] # action

\* ActionSpace.get_action_index: the 0-based position in actions
get_action_index(action) ==
  (CHOOSE i \in 1..n_actions : actions[i] = action) - 1

\* StateSpace.n_states
n_states == state_buckets * state_buckets * state_buckets * state_buckets

\* StateSpace.discretize_state: its four buckets and the state index it returns
discretize_state(test_pass_rate, coverage, complexity, dependency_count) ==
  LET test_bucket ==
        Min(int(RMul(test_pass_rate, Rat(state_buckets, 1))), state_buckets - 1)
      coverage_bucket ==
        Min(int(RMul(coverage, Rat(state_buckets, 1))), state_buckets - 1)
      complexity_bucket ==
        Min(int(RMul(complexity, Rat(state_buckets, 1))), state_buckets - 1)
      dependency_bucket == Min(dependency_count, state_buckets - 1)
  IN  [test_bucket |-> test_bucket,
       coverage_bucket |-> coverage_bucket,
       complexity_bucket |-> complexity_bucket,
       dependency_bucket |-> dependency_bucket,
       state_index |->
           test_bucket * state_buckets * state_buckets * state_buckets
         + coverage_bucket * state_buckets * state_buckets
         + complexity_bucket * state_buckets
         + dependency_bucket]

\* The state index of a Metric Snapshot, as select_action and update_inner_loop
\* compute it
state_of(metrics) ==
  discretize_state(metrics.test_pass_rate, metrics.test_coverage,
                   metrics.code_complexity, metrics.dependency_count).state_index

\* np.zeros((n_states, n_actions))
zeros == [s \in 0..(n_states - 1) |-> [a \in 0..(n_actions - 1) |-> Rat(0, 1)]]

\* q_table.shape[0]: the rows of the table in memory
shape0 == Cardinality(DOMAIN q_table)

\* numpy raises IndexError for a row outside -shape[0] .. shape[0] - 1
IndexError(state) == state < -shape0 \/ state >= shape0

\* q_table[state]: the row a state index selects; a negative index counts
\* from the end
Row(state) == IF state >= 0 THEN state ELSE state + shape0

\* np.max(row)
RMax(row) ==
  CHOOSE m \in {row[a] : a \in DOMAIN row} :
    \A a \in DOMAIN row : ~RLess(m, row[a])

\* np.argmax(row): the first index of the maximum
argmax(row) ==
  CHOOSE a \in DOMAIN row :
    /\ row[a] = RMax(row)
    /\ \A b \in DOMAIN row : b < a => row[b] # RMax(row)

\* RLConfig.alpha and RLConfig.gamma (defaults)
alpha == Rat(1, 10)
gamma == Rat(9, 10)

\* The outcome of a call that raised, and of a call that returned r
Raised == [raised |-> TRUE]

Returned(r) == [value |-> r]

\* QLearningAgent.update raises: ValueError from get_action_index, IndexError
\* from q_table[state, action_idx] or q_table[next_state]
update_raises(state, action, next_state) ==
  ValueError(action) \/ IndexError(state) \/ IndexError(next_state)

\* QLearningAgent.update writing the new value to every action of the state
update_every_action(q, state, action, r, next_state) ==
  LET action_idx == get_action_index(action)
  IN  IF update_raises(state, action, next_state)
      THEN q
      ELSE LET current_q == q[Row(state)][action_idx]
               max_next_q == RMax(q[Row(next_state)])
               new_q == RAdd(current_q,
                             RMul(alpha, RSub(RAdd(r, RMul(gamma, max_next_q)),
                                              current_q)))
           IN  [q EXCEPT ![Row(state)] = [a \in DOMAIN @ |-> new_q]]

\* QLearningAgent.update: the table after the call
update(q, state, action, r, next_state) ==
  LET action_idx == get_action_index(action)
  IN  IF update_raises(state, action, next_state)
      THEN q
      ELSE LET current_q == q[Row(state)][action_idx]
               max_next_q == RMax(q[Row(next_state)])
               new_q == RAdd(current_q,
                             RMul(alpha, RSub(RAdd(r, RMul(gamma, max_next_q)),
                                              current_q)))
           IN  [q EXCEPT ![Row(state)][action_idx] = new_q]

\* action_rewards.get(action, 0.0) in calculate_reward
action_rewards(current_metrics, baseline, action) ==
  LET pass_up == RLess(baseline.test_pass_rate, current_metrics.test_pass_rate)
      complexity_down ==
        RLess(current_metrics.code_complexity, baseline.code_complexity)
      deps_down == current_metrics.dependency_count < baseline.dependency_count
  IN  CASE action = "add_tests" -> IF pass_up THEN Rat(1, 1) ELSE Rat(-1, 2)
        [] action = "refactor_code" ->
             IF complexity_down THEN Rat(1, 1) ELSE Rat(-1, 2)
        [] action = "improve_docs" -> Rat(1, 2)
        [] action = "split_module" ->
             IF complexity_down THEN Rat(1, 1) ELSE Rat(-1, 2)
        [] action = "reduce_dependencies" ->
             IF deps_down THEN Rat(1, 1) ELSE Rat(-1, 2)
        [] action = "optimize_performance" -> Rat(1, 2)
        [] action = "fix_bugs" -> IF pass_up THEN Rat(2, 1) ELSE Rat(-1, 1)
        [] action = "add_features" -> Rat(1, 2)
        [] OTHER -> Rat(0, 1)

\* RewardCalculator.calculate_reward with the penalty applied from a drop of
\* exactly 0.1 on
reward_penalty_inclusive(baseline, current_metrics, action) ==
  LET r1 == RMul(RSub(current_metrics.test_pass_rate, baseline.test_pass_rate),
                 Rat(10, 1))
      r2 == RAdd(r1, RMul(RSub(current_metrics.test_coverage,
                               baseline.test_coverage), Rat(5, 1)))
      r3 == RAdd(r2, RMul(RSub(baseline.code_complexity,
                               current_metrics.code_complexity), Rat(2, 1)))
      r4 == RAdd(r3, RMul(Rat(baseline.dependency_count
                              - current_metrics.dependency_count, 1), Rat(1, 2)))
      r5 == RAdd(r4, action_rewards(current_metrics, baseline, action))
  IN  IF ~RLess(RSub(baseline.test_pass_rate, Rat(1, 10)),
                current_metrics.test_pass_rate)
      THEN RSub(r5, Rat(5, 1))
      ELSE r5

\* RewardCalculator.calculate_reward when baseline_metrics is set: the reward
\* accumulated term by term
reward_against(baseline, current_metrics, action) ==
  LET r1 == RMul(RSub(current_metrics.test_pass_rate, baseline.test_pass_rate),
                 Rat(10, 1))
      r2 == RAdd(r1, RMul(RSub(current_metrics.test_coverage,
                               baseline.test_coverage), Rat(5, 1)))
      r3 == RAdd(r2, RMul(RSub(baseline.code_complexity,
                               current_metrics.code_complexity), Rat(2, 1)))
      r4 == RAdd(r3, RMul(Rat(baseline.dependency_count
                              - current_metrics.dependency_count, 1), Rat(1, 2)))
      r5 == RAdd(r4, action_rewards(current_metrics, baseline, action))
  IN  IF RLess(current_metrics.test_pass_rate,
               RSub(baseline.test_pass_rate, Rat(1, 10)))
      THEN RSub(r5, Rat(5, 1))
      ELSE r5

\* RewardCalculator.calculate_reward that applies the formula on the first
\* call too
first_reward_by_formula(current_metrics, action) ==
  reward_against(current_metrics, current_metrics, action)

\* RewardCalculator.calculate_reward when baseline_metrics is None: return 0.0
first_reward(current_metrics, action) == Rat(0, 1)

\* RewardCalculator.calculate_reward: the baseline after the call
baseline_after(baseline, current_metrics) ==
  IF baseline = None THEN current_metrics ELSE baseline

\* RewardCalculator.calculate_reward: the value returned
reward_returned(baseline, current_metrics, action) ==
  IF baseline = None
  THEN first_reward(current_metrics, action)
  ELSE reward_against(baseline, current_metrics, action)

\* RewardCalculator.set_baseline
set_baseline(metrics) ==
  /\ baseline_metrics' = metrics
  /\ args' = None
  /\ reward' = None
  /\ UNCHANGED <<encoded, q_table, inner_calls, sprint_rewards, policy_weights>>
  /\ UNCHANGED <<breaker_vars, manager_vars, engine_vars, disk_vars>>

\* RewardCalculator.calculate_reward called on its own
calculate_reward(current_metrics, action) ==
  /\ baseline_metrics' = baseline_after(baseline_metrics, current_metrics)
  /\ args' = [state_metrics |-> None, action |-> action,
              metrics |-> current_metrics]
  /\ reward' = Returned(reward_returned(baseline_metrics, current_metrics, action))
  /\ UNCHANGED <<encoded, q_table, inner_calls, sprint_rewards, policy_weights>>
  /\ UNCHANGED <<breaker_vars, manager_vars, engine_vars, disk_vars>>

\* RLModule.select_action: discretize the snapshot, then QLearningAgent's
\* epsilon-greedy choice (explore: random.random() < epsilon)
select_action(metrics) ==
  LET state == discretize_state(metrics.test_pass_rate, metrics.test_coverage,
                                metrics.code_complexity, metrics.dependency_count)
      sample == {actions[i] : i \in 1..n_actions}
      best == IF IndexError(state.state_index)
              THEN "IndexError"
              ELSE actions[argmax(q_table[Row(state.state_index)]) + 1]
  IN  /\ \E action \in sample \cup {best} :
           encoded' = [metrics |-> metrics, state |-> state, action |-> action]
      /\ UNCHANGED <<q_table, baseline_metrics, args, reward, inner_calls,
                     sprint_rewards, policy_weights>>
      /\ UNCHANGED <<breaker_vars, manager_vars, engine_vars, disk_vars>>

\* RLModule.update_inner_loop: calculate_reward, both discretize_state calls,
\* QLearningAgent.update; the reward is returned unless update raised
update_inner_loop(state_metrics, action, next_state_metrics) ==
  LET r == reward_returned(baseline_metrics, next_state_metrics, action)
      current_state == state_of(state_metrics)
      next_state == state_of(next_state_metrics)
  IN  /\ inner_calls' = inner_calls + 1
      /\ args' = [state_metrics |-> state_metrics, action |-> action,
                  metrics |-> next_state_metrics]
      /\ baseline_metrics' = baseline_after(baseline_metrics, next_state_metrics)
      /\ reward' = IF update_raises(current_state, action, next_state)
                    THEN Raised
                    ELSE Returned(r)
      /\ q_table' = update(q_table, current_state, action, r, next_state)
      /\ UNCHANGED <<encoded, sprint_rewards, policy_weights>>
      /\ UNCHANGED <<breaker_vars, manager_vars, engine_vars, disk_vars>>

\* OuterLoopPolicy.__init__: policy_weights
initial_weights ==
  [f \in {"test_focus", "feature_focus", "refactor_focus", "documentation_focus"}
     |-> Rat(1, 1)]

\* OuterLoopPolicy.update_policy that reinforces on a flat trend too
weights_after_flat_reinforces(rewards, weights, sprint_metrics) ==
  IF Len(rewards) >= 2
  THEN IF ~RLess(rewards[Len(rewards)], rewards[Len(rewards) - 1])
       THEN [f \in DOMAIN weights |->
               IF \/ f = "test_focus"
                     /\ RLess(Rat(4, 5), sprint_metrics.test_coverage)
                  \/ f = "feature_focus" /\ sprint_metrics.features_added > 0
                  \/ f = "refactor_focus" /\ sprint_metrics.refactoring_done > 0
                  \/ f = "documentation_focus" /\ sprint_metrics.docs_updated > 0
               THEN RMul(weights[f], Rat(11, 10))
               ELSE weights[f]]
       ELSE [f \in DOMAIN weights |-> RMul(weights[f], Rat(9, 10))]
  ELSE weights

\* update_policy that lowers the weights by 1/2 instead of scaling them
weights_after_decrements(rewards, weights, sprint_metrics) ==
  IF Len(rewards) >= 2
  THEN [f \in DOMAIN weights |-> RSub(weights[f], Rat(1, 2))]
  ELSE weights

\* OuterLoopPolicy.update_policy: the weights after the reward was appended
weights_after(rewards, weights, sprint_metrics) ==
  IF Len(rewards) >= 2
  THEN LET recent_trend ==
             RSub(rewards[Len(rewards)], rewards[Len(rewards) - 1])
       IN  IF RLess(Rat(0, 1), recent_trend)
           THEN [f \in DOMAIN weights |->
                   IF \/ f = "test_focus"
                         /\ RLess(Rat(4, 5), sprint_metrics.test_coverage)
                      \/ f = "feature_focus" /\ sprint_metrics.features_added > 0
                      \/ f = "refactor_focus"
                         /\ sprint_metrics.refactoring_done > 0
                      \/ f = "documentation_focus"
                         /\ sprint_metrics.docs_updated > 0
                   THEN RMul(weights[f], Rat(11, 10))
                   ELSE weights[f]]
           ELSE [f \in DOMAIN weights |-> RMul(weights[f], Rat(9, 10))]
  ELSE weights

\* OuterLoopPolicy.update_policy (RLModule.update_outer_loop)
update_policy(sprint_reward, sprint_metrics) ==
  /\ sprint_rewards' = Append(sprint_rewards, sprint_reward)
  /\ policy_weights' =
       weights_after(Append(sprint_rewards, sprint_reward), policy_weights,
                     sprint_metrics)
  /\ UNCHANGED <<encoded, q_table, baseline_metrics, args, reward, inner_calls>>
  /\ UNCHANGED <<breaker_vars, manager_vars, engine_vars, disk_vars>>

\* ------------------------------------------------------------ persistence
\* A file that does not exist
Absent == [absent |-> TRUE]

\* q_table.json holding the rows written so far; complete once json.dump
\* returned and the file was closed
File(rows, complete) == [rows |-> rows, complete |-> complete]

\* self.q_table.tolist(): the list of the rows, each the list of its values
tolist(q) ==
  [i \in 1..Cardinality(DOMAIN q) |->
     [j \in 1..Cardinality(DOMAIN q[i - 1]) |-> q[i - 1][j - 1]]]

\* np.array(data["q_table"]): the array of the rows of the file
array(rows) ==
  [s \in 0..(Len(rows) - 1) |->
     [a \in 0..(Len(rows[s + 1]) - 1) |-> rows[s + 1][a + 1]]]

\* The policy_data dict of save_state
policy_data(rewards, weights) ==
  [sprint_rewards |-> rewards, policy_weights |-> weights]

\* QLearningAgent.save followed by the dump of policy_data, both completed
saved_q_table(q) == File(tolist(q), TRUE)

saved_policy(rewards, weights) == File(policy_data(rewards, weights), TRUE)

\* The row counts at which a crash can cut q_table.json: none written, the
\* first row, all but the last row
PartialLengths == {k \in {0, 1, shape0 - 1} : 0 <= k /\ k < shape0}

\* RLModule.save_state up to QLearningAgent.save's open(file_path, 'w'), which
\* truncates q_table.json
save_state ==
  /\ rl_pc = "running"
  /\ rl_pc' = "save_q"
  /\ q_table_json' = File(<<>>, FALSE)
  /\ UNCHANGED outer_policy_json
  /\ UNCHANGED <<breaker_vars, manager_vars, rl_vars, engine_vars>>

\* json.dump(data, f) in QLearningAgent.save: the buffer is flushed after k rows
dump(k) ==
  /\ rl_pc = "save_q"
  /\ k \in PartialLengths
  /\ q_table_json' = File(SubSeq(tolist(q_table), 1, k), FALSE)
  /\ UNCHANGED <<outer_policy_json, rl_pc>>
  /\ UNCHANGED <<breaker_vars, manager_vars, rl_vars, engine_vars>>

\* QLearningAgent.save returns: q_table.json is closed; save_state goes on to
\* open(policy_path, 'w'), which truncates outer_policy.json
save ==
  /\ rl_pc = "save_q"
  /\ rl_pc' = "save_policy"
  /\ q_table_json' = saved_q_table(q_table)
  /\ outer_policy_json' = File(None, FALSE)
  /\ UNCHANGED <<breaker_vars, manager_vars, rl_vars, engine_vars>>

\* save_state returns: outer_policy.json is written and closed
save_state_return ==
  /\ rl_pc = "save_policy"
  /\ rl_pc' = "running"
  /\ outer_policy_json' = saved_policy(sprint_rewards, policy_weights)
  /\ UNCHANGED q_table_json
  /\ UNCHANGED <<breaker_vars, manager_vars, rl_vars, engine_vars>>

\* json.load(f) raises on a file that was cut
JSONDecodeError(file) == file # Absent /\ ~file.complete

\* QLearningAgent.load that reads the file and keeps the table it has
load_nothing(q, file) == q

\* QLearningAgent.load: the table after the call, q when the file is absent
\* or json.load raises
load(q, file) ==
  IF file = Absent \/ JSONDecodeError(file) THEN q ELSE array(file.rows)

\* The process ends at any point, a crash in the middle of save_state
\* included, and a new one runs RLModule.__init__ over the same directory
RLModule ==
  /\ q_table' = load(zeros, q_table_json)
  /\ rl_pc' = IF JSONDecodeError(q_table_json) THEN "failed" ELSE "running"
  /\ sprint_rewards' = <<>>
  /\ policy_weights' = initial_weights
  /\ baseline_metrics' = None
  /\ encoded' = None
  /\ args' = None
  /\ reward' = None
  /\ UNCHANGED <<inner_calls, q_table_json, outer_policy_json>>
  /\ UNCHANGED <<breaker_vars, manager_vars, engine_vars>>

\* A new rl_data directory and the RLModule constructed over it
InitDisk ==
  /\ q_table_json = Absent
  /\ outer_policy_json = Absent
  /\ rl_pc = "running"

\* RLModule.__init__ with no q_table.json on disk
InitRL ==
  /\ encoded = None
  /\ q_table = zeros
  /\ baseline_metrics = None
  /\ args = None
  /\ reward = None
  /\ inner_calls = 0
  /\ sprint_rewards = <<>>
  /\ policy_weights = initial_weights

\* ------------------------------------------------------------ engine
\* sprint_runner.py and ide_interface.py
\* Settings.num_sprints ranges over 1..MaxSprints
MaxSprints == 2
\* a run_sprints call is started only while sprint_results is shorter
MaxResults == 2

\* The threads IDEInterface._run_sprint starts, one per run_sprint command;
\* a thread that finished leaves its place to the next command's thread
Threads == {"t1", "t2"}

\* SprintResult(sprint_number, success, iterations_completed, errors)
SprintResult(sprint_number, success, iterations_completed, errors) ==
  [sprint_number |-> sprint_number, success |-> success,
   iterations_completed |-> iterations_completed, errors |-> errors]

\* The result dict of _run_group_chat
ChatResult(success, iterations, errors) ==
  [success |-> success, iterations |-> iterations, errors |-> errors]

NoChat == ChatResult(FALSE, 0, <<>>)

NoSprintResult == SprintResult(0, FALSE, 0, <<>>)

\* A thread that was not started: no run_sprints call
NoThread ==
  [pc |-> "none",            \* the position in run_sprints / _run_single_sprint
   sprint_num |-> 0,         \* the loop variable of run_sprints
   branch |-> "none",        \* what create_sprint_branch did in this sprint
   sprint_focus |-> "none",  \* _run_single_sprint: sprint_focus, until the
                             \* sprint context is handed to the group chat
   chat_result |-> NoChat,   \* _run_single_sprint: chat_result
   recovery |-> "none",      \* recovery_result.success of this sprint's
                             \* handle_error call: "success", "failure"
   attempts |-> 0,           \* initiate_chat calls made in this sprint
   result |-> NoSprintResult,  \* what _run_single_sprint returns
   steps |-> <<>>,           \* the lifecycle steps this sprint has performed
   ran |-> <<>>]             \* the results this run_sprints call has appended

\* The positions inside _run_single_sprint and up to the append of its result
InSprint == {"focus", "chat", "metrics", "commit", "report", "return"}

\* The metrics dict of _get_python_project_metrics when the checks ran, with
\* the defaults update_policy reads for the keys it does not hold
MetricsOk ==
  [test_pass_rate |-> Rat(100, 1), test_coverage |-> Rat(85, 1),
   build_success |-> TRUE,
   features_added |-> 0, refactoring_done |-> 0, docs_updated |-> 0]

\* The metrics dict _get_python_project_metrics returns after an exception
MetricsDefault ==
  [test_pass_rate |-> Rat(0, 1), test_coverage |-> Rat(0, 1),
   build_success |-> FALSE,
   features_added |-> 0, refactoring_done |-> 0, docs_updated |-> 0]

\* SprintRunner._calculate_sprint_reward
_calculate_sprint_reward(metrics, chat_result) ==
  LET r1 == IF chat_result.success THEN Rat(10, 1) ELSE Rat(0, 1)
      r2 == RAdd(r1, RMul(metrics.test_pass_rate, Rat(20, 1)))
      r3 == RAdd(r2, RMul(metrics.test_coverage, Rat(10, 1)))
      r4 == IF metrics.build_success THEN RAdd(r3, Rat(5, 1)) ELSE r3
  IN  RSub(r4, RMul(Rat(Len(chat_result.errors), 1), Rat(5, 1)))

\* run_sprints leaves its loop after any failed sprint
stops_after_any_failure(result, debug_mode) == ~result.success

\* run_sprints: `if not result.success and self.settings.debug_mode: break`
stops_after(result, debug_mode) == ~result.success /\ debug_mode

\* IDEInterface._run_sprint: start a thread that calls run_sprints
_run_sprint(t) ==
  /\ threads[t].pc \in {"none", "done"}
  /\ threads' = [threads EXCEPT ![t] = [NoThread EXCEPT !.pc = "init"]]
  /\ UNCHANGED <<sprint_results, current_sprint, is_running, stop_requested,
                 settings>>
  /\ UNCHANGED <<breaker_vars, manager_vars, rl_vars, disk_vars>>

\* IDEInterface._stop_engine
_stop_engine ==
  /\ is_running' = FALSE
  /\ stop_requested' =
       stop_requested \cup {t \in Threads : threads[t].pc \notin {"none", "done"}}
  /\ UNCHANGED <<sprint_results, current_sprint, threads, settings>>
  /\ UNCHANGED <<breaker_vars, manager_vars, rl_vars, disk_vars>>

\* run_sprints up to its loop: _initialize_project, create_agents,
\* _index_project_files; `return []` when the project cannot be initialized
run_sprints(t, initialized) ==
  /\ threads[t].pc = "init"
  /\ threads' = [threads EXCEPT ![t].pc = IF initialized THEN "loop" ELSE "done",
                                ![t].sprint_num = IF initialized THEN 1 ELSE 0]
  /\ UNCHANGED <<sprint_results, current_sprint, is_running, stop_requested,
                 settings>>
  /\ UNCHANGED <<breaker_vars, manager_vars, rl_vars, disk_vars>>

\* The loop of run_sprints is exhausted: _generate_final_report, return
run_sprints_return(t) ==
  /\ threads[t].pc = "loop"
  /\ threads[t].sprint_num > settings.num_sprints
  /\ threads' = [threads EXCEPT ![t].pc = "done"]
  /\ UNCHANGED <<sprint_results, current_sprint, is_running, stop_requested,
                 settings>>
  /\ UNCHANGED <<breaker_vars, manager_vars, rl_vars, disk_vars>>

\* _run_single_sprint leaves only when create_sprint_branch raises
branch_failed_by_exception(branch) == branch = "raise"

\* _run_single_sprint: `if not self.git_ops.create_sprint_branch(sprint_num)`,
\* or an exception of that call
branch_failed(branch) == branch # "ok"

\* One iteration of run_sprints begins: current_sprint, then _run_single_sprint
\* up to the sprint branch. branch: what create_sprint_branch does, "ok",
\* "false" (returns False) or "raise" (an exception, caught at the end of
\* _run_single_sprint)
sprint_start(t, branch) ==
  /\ threads[t].pc = "loop"
  /\ threads[t].sprint_num <= settings.num_sprints
  /\ current_sprint' = threads[t].sprint_num
  /\ threads' =
       [threads EXCEPT
          ![t].pc = IF branch_failed(branch) THEN "return" ELSE "focus",
          ![t].branch = branch,
          ![t].sprint_focus = "none",
          ![t].chat_result = NoChat,
          ![t].recovery = "none",
          ![t].attempts = 0,
          ![t].steps = <<"branch">>,
          ![t].result =
            IF branch_failed(branch)
            THEN SprintResult(threads[t].sprint_num, FALSE, 0,
                              IF branch = "false"
                              THEN <<"Failed to create sprint branch">>
                              ELSE <<"exception">>)
            ELSE NoSprintResult]
  /\ UNCHANGED <<sprint_results, is_running, stop_requested, settings>>
  /\ UNCHANGED <<breaker_vars, manager_vars, rl_vars, disk_vars>>

\* get_sprint_focus: total_weight = sum(weights)
total_weight ==
  RAdd(RAdd(policy_weights["test_focus"], policy_weights["feature_focus"]),
       RAdd(policy_weights["refactor_focus"],
            policy_weights["documentation_focus"]))

\* OuterLoopPolicy.get_sprint_focus: the areas it can return. With a total
\* of 0 random.choice takes any area; otherwise r = random.uniform(0, total)
\* selects the first area whose cumulative weight reaches r: the first key
\* for r = 0, and every area of positive weight
FocusAreas ==
  IF total_weight = Rat(0, 1)
  THEN DOMAIN policy_weights
  ELSE {"test_focus"} \cup
       {f \in DOMAIN policy_weights : RLess(Rat(0, 1), policy_weights[f])}

\* _run_single_sprint: get_sprint_focus and _create_sprint_context. focus: the
\* area sampled, or "raise" when one of the two calls raises
get_sprint_focus(t, focus) ==
  /\ threads[t].pc = "focus"
  /\ threads' =
       [threads EXCEPT
          ![t].pc = IF focus = "raise" THEN "return" ELSE "chat",
          ![t].sprint_focus = IF focus = "raise" THEN "none" ELSE focus,
          ![t].steps = Append(@, "focus"),
          ![t].result =
            IF focus = "raise"
            THEN SprintResult(threads[t].sprint_num, FALSE, 0, <<"exception">>)
            ELSE NoSprintResult]
  /\ UNCHANGED <<sprint_results, current_sprint, is_running, stop_requested,
                 settings>>
  /\ UNCHANGED <<breaker_vars, manager_vars, rl_vars, disk_vars>>

\* SprintRunner._run_group_chat. chat: "success" and "failed" (what
\* _process_chat_result returns), or initiate_chat raised and handle_error
\* returned success true ("recovered") or false ("unrecovered")
_run_group_chat(t, chat) ==
  /\ threads[t].pc = "chat"
  /\ threads' =
       [threads EXCEPT
          ![t].pc = "metrics",
          ![t].sprint_focus = "none",
          ![t].steps = Append(@, "execution"),
          ![t].attempts = @ + 1,
          ![t].recovery =
            IF chat = "recovered" THEN "success"
            ELSE IF chat = "unrecovered" THEN "failure"
            ELSE "none",
          ![t].chat_result =
            IF chat = "success" THEN ChatResult(TRUE, 1, <<>>)
            ELSE IF chat = "failed" THEN ChatResult(FALSE, 1, <<"Tests failed">>)
            ELSE ChatResult(FALSE, 0, <<"exception">>)]
  /\ UNCHANGED <<sprint_results, current_sprint, is_running, stop_requested,
                 settings>>
  /\ UNCHANGED <<breaker_vars, manager_vars, rl_vars, disk_vars>>

\* _run_single_sprint from _get_project_metrics to update_outer_loop.
\* collected: the checks ran; otherwise _get_python_project_metrics caught
\* their exception, called handle_error and returned the default metrics
\* whatever the recovery result
evaluate(t, collected) ==
  LET metrics == IF collected THEN MetricsOk ELSE MetricsDefault
      sprint_reward == _calculate_sprint_reward(metrics, threads[t].chat_result)
  IN  /\ threads[t].pc = "metrics"
      /\ sprint_rewards' = Append(sprint_rewards, sprint_reward)
      /\ policy_weights' =
           weights_after(Append(sprint_rewards, sprint_reward), policy_weights,
                         metrics)
      /\ threads' = [threads EXCEPT ![t].pc = "commit",
                                    ![t].steps = Append(@, "evaluation")]
      /\ UNCHANGED <<encoded, q_table, baseline_metrics, args, reward,
                     inner_calls>>
      /\ UNCHANGED <<sprint_results, current_sprint, is_running,
                     stop_requested, settings>>
      /\ UNCHANGED <<breaker_vars, manager_vars, disk_vars>>

\* SprintRunner._create_sprint_commit, which catches its own exceptions
_create_sprint_commit(t) ==
  /\ threads[t].pc = "commit"
  /\ threads' = [threads EXCEPT ![t].pc = "report",
                                ![t].steps = Append(@, "commit")]
  /\ UNCHANGED <<sprint_results, current_sprint, is_running, stop_requested,
                 settings>>
  /\ UNCHANGED <<breaker_vars, manager_vars, rl_vars, disk_vars>>

\* _run_single_sprint from _log_sprint_results to its return: the
\* SprintResult takes success, iterations and errors from chat_result
_log_sprint_results(t) ==
  /\ threads[t].pc = "report"
  /\ threads' =
       [threads EXCEPT
          ![t].pc = "return",
          ![t].steps = Append(@, "reporting"),
          ![t].result = SprintResult(threads[t].sprint_num,
                                     threads[t].chat_result.success,
                                     threads[t].chat_result.iterations,
                                     threads[t].chat_result.errors)]
  /\ UNCHANGED <<sprint_results, current_sprint, is_running, stop_requested,
                 settings>>
  /\ UNCHANGED <<breaker_vars, manager_vars, rl_vars, disk_vars>>

\* The iteration of run_sprints ends: append the result, save_state, break in
\* debug mode after a failure
sprint_end(t) ==
  /\ threads[t].pc = "return"
  /\ sprint_results' = Append(sprint_results, threads[t].result)
  /\ threads' =
       [threads EXCEPT
          ![t].pc = IF stops_after(threads[t].result, settings.debug_mode)
                    THEN "done" ELSE "loop",
          ![t].sprint_num =
            IF stops_after(threads[t].result, settings.debug_mode)
            THEN @ ELSE @ + 1,
          ![t].branch = "none",
          ![t].steps = <<>>,
          ![t].ran = Append(@, threads[t].result)]
  /\ UNCHANGED <<current_sprint, is_running, stop_requested, settings>>
  /\ q_table_json' = saved_q_table(q_table)
  /\ outer_policy_json' = saved_policy(sprint_rewards, policy_weights)
  /\ UNCHANGED rl_pc
  /\ UNCHANGED <<breaker_vars, manager_vars, rl_vars>>

\* Settings(num_sprints, debug_mode), the two fields run_sprints reads
Settings(num_sprints, debug_mode) ==
  [num_sprints |-> num_sprints, debug_mode |-> debug_mode]

\* SprintRunner.__init__ and IDEInterface.__init__
InitEngine ==
  /\ sprint_results = <<>>
  /\ current_sprint = 0
  /\ is_running = FALSE
  /\ stop_requested = {}
  /\ threads = [t \in Threads |-> NoThread]
  /\ settings = Settings(1, FALSE)

\* The state of a manager and of the logs before any error was handled
InitManager ==
  /\ error_log = <<>>
  /\ recovery_log = <<>>
  /\ error_history = <<>>
  /\ last_result = NoResult
  /\ pc = "idle"
  /\ frame = NoFrame

\* The contexts handed to handle_error
Contexts ==
  [component : {"git", "file", "project"},
   retry_count : 0..MaxRetries,
   max_retries : 0..MaxRetries,
   operation_func : BOOLEAN,
   fallback_func : BOOLEAN]

\* The components whose external calls go through their breaker's call()
Wrapped == {"git"}

\* Spec: one handle_error invocation on a manager whose breakers are in any
\* state that call() and the clock can bring them to
Init ==
  /\ circuit_breakers = ManagerBreakers
  /\ now = 0
  /\ pending = "none"
  /\ outcome = "none"
  /\ entered = "none"
  /\ consec = [c \in DOMAIN ManagerBreakers |-> 0]
  /\ InitManager
  /\ InitRL
  /\ InitDisk
  /\ InitEngine

Next ==
  \/ \E c \in Wrapped : call(c)
  \/ \E c \in Wrapped, ok \in BOOLEAN : call_return(c, ok)
  \/ \E c \in Wrapped : Wait(c)
  \/ \E error_type \in ErrorTypes, context \in Contexts :
       /\ error_log = <<>>
       /\ handle_error(error_type, context)
  \/ \E ok \in BOOLEAN : retry_attempt(ok)

Spec == Init /\ [][Next]_vars /\ WF_vars(\E ok \in BOOLEAN : retry_attempt(ok))

\* ------------------------------------------------------------ SpecLog
\* ErrorRecoveryManager.__init__ over a project directory that holds the logs:
\* new breakers, error_history = _load_error_history()
ErrorRecoveryManager ==
  /\ pc = "idle"
  /\ circuit_breakers' = ManagerBreakers
  /\ consec' = [c \in DOMAIN ManagerBreakers |-> 0]
  /\ error_history' = error_log
  /\ UNCHANGED <<now, pending, outcome, entered>>
  /\ UNCHANGED <<error_log, recovery_log, last_result, pc, frame>>
  /\ UNCHANGED <<rl_vars, engine_vars, disk_vars>>

\* The contexts of SpecLog: the git component with no retry made yet and a
\* budget of 1 or 2 retries, as integration_tester.py and sprint_runner.py
\* pass them, or with no budget
LogContexts ==
  [component : {"git"},
   retry_count : {0},
   max_retries : {0, 1, 2},
   operation_func : BOOLEAN,
   fallback_func : BOOLEAN]

NextLog ==
  \/ \E error_type \in ErrorTypes, context \in LogContexts :
       /\ Len(error_log) < MaxErrors
       /\ handle_error(error_type, context)
  \/ \E ok \in BOOLEAN : retry_attempt(ok)
  \/ ErrorRecoveryManager

SpecLog == Init /\ [][NextLog]_vars /\ WF_vars(\E ok \in BOOLEAN : retry_attempt(ok))

\* ------------------------------------------------------------ SpecBreaker
InitBreaker ==
  /\ \E T \in 1..MaxThreshold, to \in 1..MaxTimeout :
       circuit_breakers = [c \in {"cb"} |-> CircuitBreaker(T, to)]
  /\ now = 0
  /\ pending = "none"
  /\ outcome = "none"
  /\ entered = "none"
  /\ consec = [c \in {"cb"} |-> 0]
  /\ InitManager
  /\ InitRL
  /\ InitDisk
  /\ InitEngine

NextBreaker ==
  \/ \E c \in DOMAIN circuit_breakers : call(c)
  \/ \E c \in DOMAIN circuit_breakers, ok \in BOOLEAN : call_return(c, ok)
  \/ Tick

SpecBreaker == InitBreaker /\ [][NextBreaker]_vars

\* ------------------------------------------------------------ SpecEncode
\* The Metric Snapshots handed to select_action: values inside 0..1, above 1
\* (the percentages of _get_python_project_metrics) and below 0
EncodeMetrics ==
  [test_pass_rate : {Rat(-3, 2), Rat(-1, 2), Rat(1, 2), Rat(1, 1), Rat(100, 1)},
   test_coverage : {Rat(1, 4), Rat(3, 2)},
   code_complexity : {Rat(0, 1), Rat(1, 1)},
   dependency_count : {-1, 0, 12}]

NextEncode == \E metrics \in EncodeMetrics : select_action(metrics)

SpecEncode == Init /\ [][NextEncode]_vars

\* ------------------------------------------------------------ SpecReward
\* The Metric Snapshots of SpecReward
Snapshot(test_pass_rate, test_coverage, code_complexity, dependency_count) ==
  [test_pass_rate |-> test_pass_rate, test_coverage |-> test_coverage,
   code_complexity |-> code_complexity, dependency_count |-> dependency_count]

Snapshots ==
  {Snapshot(Rat(1, 2), Rat(1, 2), Rat(1, 1), 5),
   Snapshot(Rat(3, 5), Rat(11, 20), Rat(9, 10), 5),
   Snapshot(Rat(2, 5), Rat(1, 2), Rat(1, 1), 5),
   Snapshot(Rat(2, 5), Rat(11, 20), Rat(1, 1), 6),
   Snapshot(Rat(3, 5), Rat(1, 2), Rat(1, 1), 5),
   Snapshot(Rat(1, 2), Rat(1, 2), Rat(9, 10), 5),
   Snapshot(Rat(1, 2), Rat(1, 2), Rat(1, 1), 6),
   Snapshot(Rat(1, 2), Rat(11, 20), Rat(1, 1), 4)}

\* The action names handed to calculate_reward: the catalog and a name that
\* is not in it
RewardActions == {actions[i] : i \in 1..n_actions} \cup {"deploy"}

NextReward ==
  \/ \E metrics \in Snapshots : set_baseline(metrics)
  \/ \E current_metrics \in Snapshots, action \in RewardActions :
       calculate_reward(current_metrics, action)

SpecReward == Init /\ [][NextReward]_vars

\* ------------------------------------------------------------ SpecInner
\* The Metric Snapshots and the action names of SpecInner
InnerSnapshots ==
  {Snapshot(Rat(1, 2), Rat(1, 2), Rat(1, 1), 5),
   Snapshot(Rat(3, 5), Rat(11, 20), Rat(9, 10), 5),
   Snapshot(Rat(3, 10), Rat(2, 5), Rat(9, 10), 0)}

InnerActions == {"fix_bugs", "deploy"}

NextInner ==
  \/ \E state_metrics \in InnerSnapshots, action \in InnerActions,
        next_state_metrics \in InnerSnapshots :
       /\ inner_calls < MaxUpdates
       /\ update_inner_loop(state_metrics, action, next_state_metrics)
  \/ \E current_metrics \in InnerSnapshots, action \in InnerActions :
       calculate_reward(current_metrics, action)

SpecInner == Init /\ [][NextInner]_vars

\* ------------------------------------------------------------ SpecOuter
\* The sprint rewards and sprint metrics handed to update_policy
SprintRewards == {Rat(-5, 1), Rat(0, 1), Rat(5, 1)}

SprintMetrics ==
  [test_coverage : {Rat(4, 5), Rat(9, 10)},
   features_added : {0, 2},
   refactoring_done : {0, 1},
   docs_updated : {0, 1}]

NextOuter ==
  \E sprint_reward \in SprintRewards, sprint_metrics \in SprintMetrics :
    /\ Len(sprint_rewards) < MaxPolicyUpdates
    /\ update_policy(sprint_reward, sprint_metrics)

SpecOuter == Init /\ [][NextOuter]_vars

\* ------------------------------------------------------------ SpecSprints
\* run_sprints called on one SprintRunner, each call after the one before it
\* has returned, with any settings and any outcome of the external calls
InitSprints ==
  /\ circuit_breakers = ManagerBreakers
  /\ now = 0
  /\ pending = "none"
  /\ outcome = "none"
  /\ entered = "none"
  /\ consec = [c \in DOMAIN ManagerBreakers |-> 0]
  /\ InitManager
  /\ InitRL
  /\ InitDisk
  /\ sprint_results = <<>>
  /\ current_sprint = 0
  /\ is_running = FALSE
  /\ stop_requested = {}
  /\ threads = [t \in Threads |-> NoThread]
  /\ \E n \in 1..MaxSprints, d \in BOOLEAN : settings = Settings(n, d)

\* The thread of the calls that follow one another
Main == "t1"

NextSprints ==
  \/ Len(sprint_results) < MaxResults /\ _run_sprint(Main)
  \/ _stop_engine
  \/ \E initialized \in BOOLEAN : run_sprints(Main, initialized)
  \/ run_sprints_return(Main)
  \/ \E branch \in {"ok", "false", "raise"} : sprint_start(Main, branch)
  \/ \E focus \in FocusAreas \cup {"raise"} : get_sprint_focus(Main, focus)
  \/ \E chat \in {"success", "failed", "recovered", "unrecovered"} :
       _run_group_chat(Main, chat)
  \/ \E collected \in BOOLEAN : evaluate(Main, collected)
  \/ _create_sprint_commit(Main)
  \/ _log_sprint_results(Main)
  \/ sprint_end(Main)

SpecSprints == InitSprints /\ [][NextSprints]_vars

\* ------------------------------------------------------------ SpecEngine
\* An engine under the IDE interface: each run_sprint command starts a
\* run_sprints thread on the one SprintRunner, whatever the threads before it
\* are doing; stop_engine commands arrive at any time
NextEngine ==
  \/ \E t \in Threads : threads[t].pc = "none" /\ _run_sprint(t)
  \/ _stop_engine
  \/ \E t \in Threads, initialized \in BOOLEAN : run_sprints(t, initialized)
  \/ \E t \in Threads : run_sprints_return(t)
  \/ \E t \in Threads, branch \in {"ok", "false"} : sprint_start(t, branch)
  \/ \E t \in Threads : get_sprint_focus(t, "test_focus")
  \/ \E t \in Threads, chat \in {"success", "unrecovered"} :
       _run_group_chat(t, chat)
  \/ \E t \in Threads : evaluate(t, TRUE)
  \/ \E t \in Threads : _create_sprint_commit(t)
  \/ \E t \in Threads : _log_sprint_results(t)
  \/ \E t \in Threads : sprint_end(t)

SpecEngine == InitSprints /\ [][NextEngine]_vars

\* ------------------------------------------------------------ SpecPersist
\* The table a module configured with one bucket fewer per dimension has saved
other_table ==
  [s \in 0..((state_buckets - 1) * (state_buckets - 1) * (state_buckets - 1)
                * (state_buckets - 1) - 1) |->
     [a \in 0..(n_actions - 1) |-> Rat(0, 1)]]

\* An RLModule constructed over an rl_data directory that is new or holds the
\* q_table.json of an earlier run with another state_buckets setting
InitPersist ==
  /\ circuit_breakers = ManagerBreakers
  /\ now = 0
  /\ pending = "none"
  /\ outcome = "none"
  /\ entered = "none"
  /\ consec = [c \in DOMAIN ManagerBreakers |-> 0]
  /\ InitManager
  /\ InitEngine
  /\ q_table_json \in {Absent, saved_q_table(other_table)}
  /\ outer_policy_json = Absent
  /\ rl_pc = "running"
  /\ q_table = load(zeros, q_table_json)
  /\ encoded = None
  /\ baseline_metrics = None
  /\ args = None
  /\ reward = None
  /\ inner_calls = 0
  /\ sprint_rewards = <<>>
  /\ policy_weights = initial_weights

\* The Metric Snapshots handed to update_inner_loop in SpecPersist
PersistSnapshots ==
  {Snapshot(Rat(1, 2), Rat(1, 2), Rat(1, 1), 5),
   Snapshot(Rat(3, 5), Rat(11, 20), Rat(9, 10), 5)}

NextPersist ==
  \/ \E state_metrics \in PersistSnapshots, next_state_metrics \in PersistSnapshots :
       /\ rl_pc = "running"
       /\ inner_calls < MaxUpdates
       /\ update_inner_loop(state_metrics, "fix_bugs", next_state_metrics)
  \/ \E sprint_reward \in {Rat(0, 1), Rat(5, 1)} :
       /\ rl_pc = "running"
       /\ Len(sprint_rewards) < 2
       /\ update_policy(sprint_reward, MetricsOk)
  \/ save_state
  \/ \E k \in PartialLengths : dump(k)
  \/ save
  \/ save_state_return
  \/ RLModule

SpecPersist == InitPersist /\ [][NextPersist]_vars

\* ------------------------------------------------------------ claims C1-C4
Tripped(cb) == cb.state \in {"OPEN", "HALF_OPEN"}

\* C1: a breaker is OPEN exactly when failure_threshold wrapped-function
\* failures have occurred since the last success (HALF_OPEN only while the
\* probe call is running), and it is never OPEN or HALF_OPEN with fewer.
C1_OpenExactlyAtThreshold ==
  \A c \in DOMAIN circuit_breakers :
    LET cb == circuit_breakers[c]
    IN  /\ Tripped(cb) <=> consec[c] >= cb.failure_threshold
        /\ cb.state = "HALF_OPEN" => pending = c
        /\ cb.state = "CLOSED" => consec[c] < cb.failure_threshold

\* C1 witness: the breaker is OPEN right after the third consecutive failure
C1_Witness ==
  \E c \in DOMAIN circuit_breakers :
    /\ circuit_breakers[c].failure_threshold = 3
    /\ circuit_breakers[c].state = "OPEN"
    /\ consec[c] = 3
    /\ entered = "CLOSED"
    /\ outcome = "raised"

\* C2: a call() attempted while OPEN with fewer than timeout seconds since
\* last_failure_time does not invoke the wrapped function, raises to the
\* caller, and leaves state, failure_count and last_failure_time unchanged.
C2_ShortCircuitFrame ==
  [][\A c \in DOMAIN circuit_breakers :
       LET cb == circuit_breakers[c]
       IN  (/\ call(c)
            /\ cb.state = "OPEN"
            /\ cb.last_failure_time # NoTime
            /\ now - cb.last_failure_time < cb.timeout)
           => (/\ pending' = "none"
               /\ outcome' = "raised_open"
               /\ circuit_breakers'[c].state = cb.state
               /\ circuit_breakers'[c].failure_count = cb.failure_count
               /\ circuit_breakers'[c].last_failure_time = cb.last_failure_time)]_vars

\* C2 witness: a call was short-circuited one second after the last failure
C2_Witness ==
  \E c \in DOMAIN circuit_breakers :
    /\ outcome = "raised_open"
    /\ entered = "OPEN"
    /\ pending = "none"
    /\ circuit_breakers[c].state = "OPEN"
    /\ now = circuit_breakers[c].last_failure_time + 1

\* C3: a call() attempted while OPEN with at least timeout seconds since the
\* last failure moves the breaker to HALF_OPEN and invokes the wrapped
\* function; if that invocation succeeds the breaker ends CLOSED with
\* failure_count = 0.
C3_ProbeAfterTimeout ==
  [][\A c \in DOMAIN circuit_breakers :
       LET cb == circuit_breakers[c]
       IN  /\ (/\ call(c)
               /\ cb.state = "OPEN"
               /\ now - cb.last_failure_time >= cb.timeout)
              => (/\ circuit_breakers'[c].state = "HALF_OPEN"
                  /\ pending' = c)
           /\ (/\ pending = c
               /\ cb.state = "HALF_OPEN"
               /\ outcome' = "returned")
              => (/\ circuit_breakers'[c].state = "CLOSED"
                  /\ circuit_breakers'[c].failure_count = 0)]_vars

\* C3 witness: the probe call made exactly timeout seconds after the last
\* failure has returned and the breaker is CLOSED
C3_Witness ==
  \E c \in DOMAIN circuit_breakers :
    /\ entered = "OPEN"
    /\ outcome = "returned"
    /\ circuit_breakers[c].state = "CLOSED"
    /\ circuit_breakers[c].failure_count = 0
    /\ now = circuit_breakers[c].last_failure_time + circuit_breakers[c].timeout

\* C4: when the wrapped function fails in HALF_OPEN the breaker ends OPEN with
\* last_failure_time set to the time of that failure, and every call within
\* timeout seconds of it short-circuits, whatever failure_threshold is.
C4_ProbeFailureReopens ==
  [][\A c \in DOMAIN circuit_breakers :
       LET cb == circuit_breakers[c]
       IN  (/\ pending = c
            /\ cb.state = "HALF_OPEN"
            /\ outcome' = "raised")
           => (/\ circuit_breakers'[c].state = "OPEN"
               /\ circuit_breakers'[c].last_failure_time = now
               /\ \A t \in now..(now + cb.timeout - 1) :
                    call_short_circuits(circuit_breakers'[c], t))]_vars

\* C4 witness: a probe call failed on a breaker whose threshold is above 1
C4_Witness ==
  \E c \in DOMAIN circuit_breakers :
    /\ entered = "OPEN"
    /\ outcome = "raised"
    /\ circuit_breakers[c].failure_threshold > 1
    /\ circuit_breakers[c].state = "OPEN"
    /\ circuit_breakers[c].failure_count > circuit_breakers[c].failure_threshold
\* ------------------------------------------------------------ claims C5-C10
\* The values of the RecoveryAction enumeration
RecoveryActions == {"retry", "fallback", "rollback", "restart", "skip", "abort"}

\* The three-rule decision table as the claim states it
C5_Table(severity, retry_count, max_retries, breaker_open) ==
  IF retry_count >= max_retries
  THEN CASE severity = "critical" -> "abort"
         [] severity = "high" -> "rollback"
         [] OTHER -> "skip"
  ELSE IF breaker_open
       THEN "fallback"
       ELSE CASE severity \in {"low", "medium"} -> "retry"
              [] severity = "high" -> "fallback"
              [] severity = "critical" -> "abort"

\* Whether the component has a breaker and that breaker is OPEN
BreakerOpen(component) ==
  /\ component \in DOMAIN circuit_breakers
  /\ circuit_breakers[component].state = "OPEN"

\* A step in which a handle_error invocation returns
Returns == Len(recovery_log') = Len(recovery_log) + 1

\* C5: whenever handle_error returns, the action taken is the one the
\* three-rule table gives for the error's severity, retry_count, max_retries
\* and the state of its component's breaker (no breaker: not OPEN).
C5_DecisionTable ==
  [][Returns =>
       LET error_context == last_result'.error_context
       IN  last_result'.action_taken =
             C5_Table(error_context.severity,
                      error_context.retry_count,
                      error_context.max_retries,
                      BreakerOpen(error_context.component))]_vars

\* C5 witness: rule 2 decided a LOW error with budget left, its breaker OPEN
C5_Witness ==
  /\ last_result.action_taken = "fallback"
  /\ last_result.error_context.severity = "low"
  /\ last_result.error_context.retry_count < last_result.error_context.max_retries
  /\ last_result.error_context.component = "git"
  /\ circuit_breakers["git"].state = "OPEN"

\* C6: a CRITICAL error is always answered with ABORT and success = false,
\* whatever retry_count, max_retries and the breaker's state are.
C6_CriticalAlwaysAborts ==
  last_result.error_context.severity = "critical"
    => (last_result.action_taken = "abort" /\ ~last_result.success)

\* A step in which a handle_error invocation starts
Starts(contexts) ==
  \E error_type \in ErrorTypes, context \in contexts : handle_error(error_type, context)

\* Entry i of the recovery log belongs to entry i of the error log
InOrder ==
  \A i \in 1..Len(recovery_log) :
    /\ i <= Len(error_log)
    /\ recovery_log[i].error_type = error_log[i].error_type
    /\ recovery_log[i].component = error_log[i].component

\* xs is ys with exactly n entries appended
Extends(xs, ys, n) ==
  /\ Len(xs) = Len(ys) + n
  /\ SubSeq(xs, 1, Len(ys)) = ys

\* C7: every handle_error invocation appends exactly one entry to the error
\* log (when it starts) and one to the recovery log (when it returns), in
\* invocation order; no step changes an entry already written, and nothing
\* else is ever appended.
C7_LogsAppendOnly ==
  [][/\ Extends(error_log', error_log, IF Starts(LogContexts) THEN 1 ELSE 0)
     /\ Extends(recovery_log', recovery_log,
                IF pc' = "idle" /\ (pc = "retry" \/ Starts(LogContexts)) THEN 1 ELSE 0)
     /\ InOrder'
     /\ pc' = "idle" => Len(recovery_log') = Len(error_log')]_vars

\* C7 witness: two invocations have returned and left two different entries
C7_Witness ==
  /\ pc = "idle"
  /\ Len(error_log) = 2
  /\ Len(recovery_log) = 2
  /\ error_log[1] # error_log[2]
  /\ recovery_log[1].action_taken = "retry"
  /\ recovery_log[2].action_taken = "abort"

Budget == frame.error_context.max_retries - frame.error_context.retry_count

\* C9: under RETRY the operation is invoked at most max_retries - retry_count
\* times, never again after an invocation that returned, success is true
\* exactly when an invocation returned, a failure means that every attempt
\* raised (or that no operation was supplied and none was invoked), and the
\* loop terminates.
C9_RetryLoop ==
  /\ [](/\ frame.error_context.recovery_action = "retry" => frame.op_calls <= Budget
        /\ pc = "retry" => ~frame.op_ok
        /\ (pc = "idle" /\ last_result.action_taken = "retry")
             => /\ last_result.success = frame.op_ok
                /\ last_result.success => frame.op_calls >= 1
                /\ ~last_result.success
                     => frame.op_calls = IF frame.operation_func THEN Budget ELSE 0)
  /\ (pc = "retry") ~> (pc = "idle")

\* C9 witness: with retry_count 0 and max_retries 2 the first attempt raised
\* and the second returned
C9_Witness ==
  /\ pc = "idle"
  /\ last_result.action_taken = "retry"
  /\ last_result.success
  /\ frame.error_context.retry_count = 0
  /\ frame.error_context.max_retries = 2
  /\ frame.op_calls = 2

\* C10: get_error_statistics reports total_errors = the number of entries of
\* the error log, successful_recoveries = the number of successful recovery
\* results, recovery_rate = successful_recoveries / total_errors * 100 (at
\* most 100) and every breaker's state.
C10_StatisticsMatchLogs ==
  pc = "idle" =>
    LET stats == get_error_statistics
        successes == Cardinality({i \in 1..Len(recovery_log) : recovery_log[i].success})
    IN  /\ stats.total_errors = Len(error_log)
        /\ error_log # <<>> =>
             /\ "successful_recoveries" \in DOMAIN stats
             /\ stats.successful_recoveries = successes
             /\ stats.recovery_rate[1] * Len(error_log) = successes * 100 * stats.recovery_rate[2]
             /\ stats.recovery_rate[1] <= 100 * stats.recovery_rate[2]
             /\ "circuit_breaker_states" \in DOMAIN stats
             /\ \A c \in DOMAIN circuit_breakers :
                  stats.circuit_breaker_states[c] = circuit_breakers[c].state

\* ------------------------------------------------------------ claims C11-C15
\* The cells of the Q-table
Cells == (0..(n_states - 1)) \X (0..(n_actions - 1))

\* C11: a call update(s, a, r, s') that returns changes exactly one cell of
\* the Q-table: Q[s, a] moves by alpha * (r + gamma * max Q_old[s', .] -
\* Q_old[s, a]), the maximum being the one of the table before the write (also
\* when s' = s), and every other cell keeps its value.
C11_UpdateOneCell ==
  [][(inner_calls' = inner_calls + 1 /\ reward' # Raised)
     => \A s \in {state_of(args'.state_metrics)},
           s2 \in {state_of(args'.metrics)},
           a \in {get_action_index(args'.action)} :
          \A next_row \in {q_table[s2]}, old_q \in {q_table[s][a]} :
            \E old_max \in {next_row[b] : b \in 0..(n_actions - 1)} :
              /\ \A b \in 0..(n_actions - 1) : ~RLess(old_max, next_row[b])
              /\ RSub(q_table'[s][a], old_q)
                   = RMul(alpha, RSub(RAdd(reward'.value, RMul(gamma, old_max)),
                                      old_q))
              /\ q_table' = [q_table EXCEPT ![s][a] = q_table'[s][a]]]_vars

\* An update has been made whose target included gamma * max Q[s', .] with a
\* maximum other than zero: the new value is no multiple of alpha / 100
C11_Witness ==
  /\ inner_calls >= 1
  /\ \E c \in Cells : q_table[c[1]][c[2]][2] > 1000

\* C12: discretize_state never fails and never leaves the state space: for
\* every input, negative ones and ones above the range included, each bucket
\* is in 0..B-1 and the state index is a row of the Q-table, so that the
\* lookup of select_action succeeds; a rate of 1.0 or more maps to bucket B-1.
C12_DiscretizeInRange ==
  encoded # None =>
    /\ encoded.state.test_bucket \in 0..(state_buckets - 1)
    /\ encoded.state.coverage_bucket \in 0..(state_buckets - 1)
    /\ encoded.state.complexity_bucket \in 0..(state_buckets - 1)
    /\ encoded.state.dependency_bucket \in 0..(state_buckets - 1)
    /\ encoded.state.state_index \in 0..(n_states - 1)
    /\ encoded.action # "IndexError"
    /\ ~RLess(encoded.metrics.test_pass_rate, Rat(1, 1))
         => encoded.state.test_bucket = state_buckets - 1

\* x in hundredths, for the rates of a Metric Snapshot
Hundredths(x) == (x[1] * 100) \div x[2]

\* The action bonus of the reward table, in hundredths
C13_Bonus(base, cur, action) ==
  LET pass_improved ==
        Hundredths(cur.test_pass_rate) > Hundredths(base.test_pass_rate)
      complexity_improved ==
        Hundredths(cur.code_complexity) < Hundredths(base.code_complexity)
      deps_improved == cur.dependency_count < base.dependency_count
  IN  IF action = "add_tests" THEN (IF pass_improved THEN 100 ELSE -50)
      ELSE IF action \in {"refactor_code", "split_module"}
           THEN (IF complexity_improved THEN 100 ELSE -50)
      ELSE IF action = "reduce_dependencies"
           THEN (IF deps_improved THEN 100 ELSE -50)
      ELSE IF action = "fix_bugs" THEN (IF pass_improved THEN 200 ELSE -100)
      ELSE IF action \in {"improve_docs", "optimize_performance", "add_features"}
           THEN 50
      ELSE 0

\* The reward formula, in hundredths
C13_Formula(base, cur, action) ==
    10 * (Hundredths(cur.test_pass_rate) - Hundredths(base.test_pass_rate))
  + 5 * (Hundredths(cur.test_coverage) - Hundredths(base.test_coverage))
  + 2 * (Hundredths(base.code_complexity) - Hundredths(cur.code_complexity))
  + 50 * (base.dependency_count - cur.dependency_count)
  + C13_Bonus(base, cur, action)
  - (IF Hundredths(cur.test_pass_rate) < Hundredths(base.test_pass_rate) - 10
     THEN 500 ELSE 0)

\* The baseline and the next snapshot of the end-to-end example
C13_Base ==
  [test_pass_rate |-> Rat(1, 2), test_coverage |-> Rat(1, 2),
   code_complexity |-> Rat(1, 1), dependency_count |-> 5]

C13_Next ==
  [test_pass_rate |-> Rat(3, 5), test_coverage |-> Rat(11, 20),
   code_complexity |-> Rat(9, 10), dependency_count |-> 5]

\* C13: with a baseline set, calculate_reward(current, action) returns
\* 10 * pass-rate gain + 5 * coverage gain + 2 * complexity drop + 0.5 *
\* dependency drop + the action bonus - 5 if the pass rate fell by more than
\* 0.10; metrics equal to the baseline give the action bonus alone, and the
\* end-to-end example with fix_bugs gives 3.45.
C13_RewardFormula ==
  [][(baseline_metrics # None /\ reward' # None)
     => /\ reward'.value
             = Rat(C13_Formula(baseline_metrics, args'.metrics, args'.action), 100)
        /\ args'.metrics = baseline_metrics
             => reward'.value
                  = Rat(C13_Bonus(baseline_metrics, args'.metrics, args'.action),
                        100)
        /\ (/\ baseline_metrics = C13_Base
            /\ args'.metrics = C13_Next
            /\ args'.action = "fix_bugs")
             => reward'.value = Rat(345, 100)]_vars

\* The end-to-end example has been computed
C13_Witness ==
  /\ baseline_metrics = C13_Base
  /\ args = [state_metrics |-> None, action |-> "fix_bugs", metrics |-> C13_Next]
  /\ reward = Returned(Rat(345, 100))

\* C14 as stated: the baseline is set once, to the first snapshot, and every
\* returned reward, the first one included, is the reward formula against it.
C14_EveryRewardByFormula ==
  [][/\ baseline_metrics # None => baseline_metrics' = baseline_metrics
     /\ reward' # Raised
          => reward'.value
               = Rat(C13_Formula(baseline_metrics', args'.metrics, args'.action),
                     100)]_vars

\* C14: the baseline is set once, by the first call, to the snapshot that call
\* hands to calculate_reward (the `after` snapshot of update_inner_loop), and
\* no later call changes it; the first call returns 0.0, every later call
\* returns the reward formula against that baseline.
C14_BaselineSetOnce ==
  [][/\ baseline_metrics'
          = IF baseline_metrics = None THEN args'.metrics ELSE baseline_metrics
     /\ reward' # Raised
          => reward'.value
               = IF baseline_metrics = None
                 THEN Rat(0, 1)
                 ELSE Rat(C13_Formula(baseline_metrics, args'.metrics,
                                      args'.action), 100)]_vars

\* A second update_inner_loop call has returned a reward other than zero
C14_Witness ==
  /\ inner_calls = 2
  /\ baseline_metrics # None
  /\ reward # None /\ reward # Raised
  /\ reward.value # Rat(0, 1)

\* w2 = w1 * n / 10, by cross-multiplication
C15_Times(w1, w2, n) == w2[1] * w1[2] * 10 = w1[1] * n * w2[2]

\* The evidence in the sprint metrics for each weight
C15_Evidence(f, sprint_metrics) ==
  IF f = "test_focus" THEN sprint_metrics.test_coverage[1] * 5
                             > 4 * sprint_metrics.test_coverage[2]
  ELSE IF f = "feature_focus" THEN sprint_metrics.features_added > 0
  ELSE IF f = "refactor_focus" THEN sprint_metrics.refactoring_done > 0
  ELSE sprint_metrics.docs_updated > 0

\* C15: update_policy appends the reward to the history; then, with two or
\* more entries, a last reward strictly above the one before multiplies by 1.1
\* exactly the weights whose evidence is in the sprint metrics and leaves the
\* others, and an equal or lower reward multiplies all four by 0.9; with one
\* entry no weight changes.
C15_UpdatePolicy ==
  [][\A sprint_reward \in SprintRewards, sprint_metrics \in SprintMetrics :
       update_policy(sprint_reward, sprint_metrics)
       => LET n == Len(sprint_rewards')
              last == sprint_rewards'[n]
              prev == sprint_rewards'[n - 1]
          IN  /\ sprint_rewards' = Append(sprint_rewards, sprint_reward)
              /\ DOMAIN policy_weights' = DOMAIN policy_weights
              /\ n < 2 => policy_weights' = policy_weights
              /\ n >= 2 =>
                   \A f \in DOMAIN policy_weights :
                     IF last[1] * prev[2] > prev[1] * last[2]
                     THEN IF C15_Evidence(f, sprint_metrics)
                          THEN C15_Times(policy_weights[f], policy_weights'[f], 11)
                          ELSE policy_weights'[f] = policy_weights[f]
                     ELSE C15_Times(policy_weights[f], policy_weights'[f], 9)]_vars

\* A rising reward has boosted the test weight alone, and a later reward that
\* did not rise has decayed all four
C15_Witness ==
  /\ Len(sprint_rewards) = 3
  /\ policy_weights.test_focus = Rat(99, 100)
  /\ policy_weights.feature_focus = Rat(9, 10)
  /\ policy_weights.refactor_focus = Rat(9, 10)
  /\ policy_weights.documentation_focus = Rat(9, 10)

\* ------------------------------------------------------------ claims C16-C20
\* C16: when an external call of a sprint state fails and goes through
\* handle_error, a successful recovery makes the sprint re-attempt that state
\* exactly once, and a failed recovery sends the sprint directly to its failed
\* result, with no evaluation and no commit. As stated; the code does neither.
C16_RecoveryDecidesSprint ==
  \A t \in Threads :
    /\ threads[t].recovery = "failure" =>
         /\ threads[t].pc \notin {"metrics", "commit", "report"}
         /\ threads[t].pc = "return" => ~threads[t].result.success
    /\ threads[t].recovery = "success" =>
         \/ threads[t].pc = "chat" /\ threads[t].attempts = 1
         \/ threads[t].attempts = 2

\* The sprint numbers for which thread t's run_sprints call recorded a failure
FailedSprints(t) ==
  {i \in 1..Len(threads[t].ran) : ~threads[t].ran[i].success}

\* thread t's run_sprints call has returned after initializing the project
Returned_run(t) == threads[t].pc = "done" /\ threads[t].sprint_num > 0

\* C17: a failed sprint never aborts run_sprints: its result, success false
\* with its errors, is recorded at the end of the history; without debug_mode
\* the call returns only after all num_sprints sprints have a result; with
\* debug_mode the first failed sprint is the last sprint of the call.
C17_FailedSprintRecorded ==
  LET th == threads[Main]
      n == Len(sprint_results)
  IN  /\ th.pc \in {"none", "init", "loop", "done"} \cup InSprint
      /\ Len(th.ran) <= n
      /\ SubSeq(sprint_results, n - Len(th.ran) + 1, n) = th.ran
      /\ \A i \in 1..Len(th.ran) :
           /\ th.ran[i].sprint_number = i
           /\ th.ran[i].success = (th.ran[i].errors = <<>>)
      /\ th.pc \in InSprint => th.sprint_num = Len(th.ran) + 1
      /\ ~settings.debug_mode /\ Returned_run(Main) =>
           Len(th.ran) = settings.num_sprints
      /\ settings.debug_mode =>
           /\ \A i \in FailedSprints(Main) :
                i = Len(th.ran) /\ th.pc = "done"
           /\ Returned_run(Main) /\ FailedSprints(Main) = {} =>
                Len(th.ran) = settings.num_sprints

\* A run of two sprints without debug_mode that has returned: its first sprint
\* failed by an exception, its second sprint succeeded, both are recorded
C17_Witness ==
  /\ ~settings.debug_mode
  /\ Returned_run(Main)
  /\ Len(threads[Main].ran) = 2
  /\ sprint_results[1] = SprintResult(1, FALSE, 0, <<"exception">>)
  /\ sprint_results[2].success

\* C18: no two results of the sprint history share a sprint_number. As
\* stated; a second run_sprints call on the same runner appends sprint 1 again.
C18_OneResultPerSprint ==
  \A i, j \in 1..Len(sprint_results) :
    i < j => sprint_results[i].sprint_number # sprint_results[j].sprint_number

\* C19: at most one sprint is in progress at any time. As stated; each
\* run_sprint command starts its own run_sprints thread.
C19_OneActiveSprint ==
  Cardinality({t \in Threads : threads[t].pc \in InSprint}) <= 1

\* C20: a run_sprints call that was in progress when stop_engine was processed
\* starts no further sprint. As stated; run_sprints reads no stop flag.
C20_NoSprintAfterStop ==
  [][\A t \in stop_requested :
       ~(threads[t].pc = "loop" /\ threads'[t].pc \in InSprint)]_vars

\* ------------------------------------------------------------ claims C21-C30
\* The lifecycle steps of _run_single_sprint, in the order of its statements
Lifecycle ==
  <<"branch", "focus", "execution", "evaluation", "commit", "reporting">>

IsPrefix(s, t) == Len(s) <= Len(t) /\ s = SubSeq(t, 1, Len(s))

Reported(c) ==
  {i \in (Len(error_history) + 1)..Len(error_log) : error_log[i].component = c}

\* C22: once failure_threshold failures of a component have been reported to
\* the manager, that component's breaker is OPEN. As stated; handle_error
\* never records a failure in a breaker.
C22_FailuresOpenBreaker ==
  \A c \in DOMAIN circuit_breakers :
    Cardinality(Reported(c)) >= circuit_breakers[c].failure_threshold =>
      circuit_breakers[c].state = "OPEN"

\* C23: every sprint that reaches evaluation has obtained an action from
\* select_action and applied one update_inner_loop, so the updates made equal
\* the evaluations made. As stated; a sprint calls neither.
C23_InnerLoopLearns ==
  /\ inner_calls = Len(sprint_rewards)
  /\ Len(sprint_rewards) >= 1 => encoded # None

\* C24: q_table.json on disk is never partially written. As stated;
\* QLearningAgent.save truncates the file and writes it in place.
C24_NeverPartiallyWritten ==
  q_table_json = Absent \/ q_table_json.complete

\* C25: the table of a constructed module has n_states rows of n_actions
\* cells. As stated; load adopts whatever table the file holds.
C25_LoadedTableHasConfiguredShape ==
  rl_pc = "running" =>
    /\ DOMAIN q_table = 0..(n_states - 1)
    /\ \A s \in DOMAIN q_table : DOMAIN q_table[s] = 0..(n_actions - 1)

\* C26: a breaker is CLOSED exactly when failure_count < failure_threshold;
\* an OPEN or HALF_OPEN breaker has failure_count >= failure_threshold and a
\* last_failure_time; failure_count goes down only to 0 and only when a
\* wrapped call returns.
C26_StateMatchesCount ==
  /\ [](\A c \in DOMAIN circuit_breakers :
         LET cb == circuit_breakers[c]
         IN  /\ cb.state \in {"CLOSED", "OPEN", "HALF_OPEN"}
             /\ (cb.state = "CLOSED") <=> (cb.failure_count < cb.failure_threshold)
             /\ cb.state # "CLOSED" =>
                  /\ cb.failure_count >= cb.failure_threshold
                  /\ cb.last_failure_time # NoTime)
  /\ [][\A c \in DOMAIN circuit_breakers :
          circuit_breakers'[c].failure_count < circuit_breakers[c].failure_count =>
            /\ circuit_breakers'[c].failure_count = 0
            /\ pending = c
            /\ outcome' = "returned"]_vars

\* A breaker that opened, was probed after its timeout and closed again on
\* the success of the probe
C26_Witness ==
  \E c \in DOMAIN circuit_breakers :
    /\ entered = "OPEN"
    /\ outcome = "returned"
    /\ circuit_breakers[c].state = "CLOSED"
    /\ circuit_breakers[c].failure_count = 0
    /\ circuit_breakers[c].last_failure_time # NoTime

\* The RecoveryAction values a handle_error result can carry
Taken == {"retry", "fallback", "rollback", "skip", "abort"}

\* C27: the action decided and the action_taken of every result returned or
\* logged is RETRY, FALLBACK, ROLLBACK, SKIP or ABORT, never RESTART, and it is
\* ROLLBACK only for a HIGH error with retry_count >= max_retries.
C27_NeverRestart ==
  /\ last_result = NoResult \/ last_result.action_taken \in Taken
  /\ last_result.action_taken = "rollback" =>
       /\ last_result.error_context.severity = "high"
       /\ last_result.error_context.retry_count >=
            last_result.error_context.max_retries
  /\ frame.error_context = NoContext \/
       frame.error_context.recovery_action \in Taken
  /\ frame.error_context.recovery_action = "rollback" =>
       /\ frame.error_context.severity = "high"
       /\ frame.error_context.retry_count >= frame.error_context.max_retries
  /\ \A i \in 1..Len(recovery_log) : recovery_log[i].action_taken \in Taken

\* handle_error has returned a ROLLBACK result
C27_Witness ==
  /\ pc = "idle"
  /\ last_result.action_taken = "rollback"
  /\ Len(recovery_log) = 1
  /\ recovery_log[1].action_taken = "rollback"

\* C28: every entry of the error log records recovery_action RETRY; the
\* action decided for the i-th error is the action_taken of the i-th entry of
\* the recovery log, written when its handle_error returns.
C28_ErrorLogRecordsDefault ==
  /\ \A i \in 1..Len(error_log) : error_log[i].recovery_action = "retry"
  /\ Len(recovery_log) <= Len(error_log)
  /\ pc = "idle" => Len(recovery_log) = Len(error_log)
  /\ \A i \in 1..Len(recovery_log) :
       recovery_log[i].action_taken =
         _determine_recovery_action(error_log[i], circuit_breakers)

\* Two errors handled by SKIP and by ROLLBACK, both logged as RETRY
C28_Witness ==
  /\ Len(error_log) = 2
  /\ Len(recovery_log) = 2
  /\ recovery_log[1].action_taken = "skip"
  /\ recovery_log[2].action_taken = "rollback"
  /\ error_log[1].recovery_action = "retry"
  /\ error_log[2].recovery_action = "retry"

\* 11^i and 9^j, 10^k
RECURSIVE Pow(_, _)
Pow(b, e) == IF e = 0 THEN 1 ELSE b * Pow(b, e - 1)

\* C29: every focus-area weight is 1.1^i * 0.9^j with i + j at most the number
\* of update_policy calls, hence > 0; the total weight is not 0, so
\* get_sprint_focus never takes its uniform-choice branch; the focus it returns
\* is one of the four areas and the call changes no weight.
C29_WeightsPositive ==
  /\ [](/\ DOMAIN policy_weights =
            {"test_focus", "feature_focus", "refactor_focus",
             "documentation_focus"}
        /\ \A f \in DOMAIN policy_weights :
             /\ RLess(Rat(0, 1), policy_weights[f])
             /\ \E i, j \in 0..Len(sprint_rewards) :
                  /\ i + j <= Len(sprint_rewards)
                  /\ policy_weights[f] =
                       Rat(Pow(11, i) * Pow(9, j), Pow(10, i + j))
        /\ RLess(Rat(0, 1), total_weight)
        /\ FocusAreas = DOMAIN policy_weights)
  /\ [][\A t \in Threads :
          threads[t].pc = "focus" /\ threads'[t].pc = "chat" =>
            /\ threads'[t].sprint_focus \in DOMAIN policy_weights
            /\ policy_weights' = policy_weights]_vars

\* A focus was sampled after two sprints had lowered every weight to 0.9
C29_Witness ==
  /\ threads[Main].pc = "chat"
  /\ threads[Main].sprint_focus = "documentation_focus"
  /\ Len(sprint_rewards) = 2
  /\ \A f \in DOMAIN policy_weights : policy_weights[f] = Rat(9, 10)

====
